---- MODULE Spec2Model ----
(***************************************************************************)
(* Model of the Live Slide Enhancer (src/main.py and its collaborators):   *)
(* the Tk main thread (buttons, the periodic timer, the speech-queue       *)
(* poll), the detection threads (Application.run_deviation_check), the     *)
(* update threads (Application._generate_and_apply), the transcription     *)
(* producer (VoiceProcessor) and the live deck driven through SlideUpdater.*)
(*                                                                         *)
(* A callback of the Tk main thread is one action: the main thread runs    *)
(* one callback at a time.  A background thread is a sequence of actions,  *)
(* one per blocking call it makes; other threads run in between.           *)
(***************************************************************************)
EXTENDS Integers, Sequences, FiniteSets, Bags, TLC

\* ------------------------------------------------------------------ bounds
\* Spec: utterances delivered, update threads spawned, decks selected
MaxUtter == 3
MaxApplies == 1
MaxSelect == 1
\* SpecWide: the same three, wide enough for two updates at once and for an
\* utterance that arrives while a detection cycle is judging
WideUtter == 4
WideApplies == 2
WideSelect == 1
\* SpecBuffer: utterances delivered
MaxPush == 13
\* SpecReselect: selections, the one of InitReselect counted
MaxReselect == 2

\* ------------------------------------------------------- program constants
\* deque(maxlen=10)
BUFFER_MAXLEN == 10
\* len(self.speech_buffer) < 3
MIN_UTTERANCES == 3

VARIABLES
    is_running,               \* Application.is_running
    is_checking,              \* Application.is_checking
    periodic_check_id,        \* "none" | "live" (names a pending timer) | "stale" (names a fired one)
    timers,                   \* pending after(8000, periodic_check) callbacks
    voice_thread,             \* "none" | "alive" | "dead": the thread self.voice_thread names
    orphan_voices,            \* live VoiceProcessor threads no attribute names any more
    speech_queue,             \* Application.speech_queue (utterance ids)
    speech_buffer,            \* Application.speech_buffer (utterance ids)
    generated_slide_indices,  \* Application.generated_slide_indices
    slide_updater,            \* None | "SlideUpdater"
    style_guide,              \* "None" | "guide"
    start_button,             \* enabled?
    stop_button,              \* enabled?
    manual_generate_button,   \* enabled?
    status,                   \* text of the status label
    deck,                     \* slides of the presentation slide_updater names
    show_pos,                 \* CurrentShowPosition of its slide show, 0 = no show running
    check_threads,            \* bag of the threads running run_deviation_check
    apply_threads,            \* bag of the threads running _generate_and_apply
    utter_count,              \* utterances delivered so far (the next id)
    apply_count,              \* update threads spawned so far
    select_count              \* deck selections so far

vars == <<is_running, is_checking, periodic_check_id, timers, voice_thread,
          orphan_voices, speech_queue, speech_buffer, generated_slide_indices,
          slide_updater, style_guide, start_button, stop_button,
          manual_generate_button, status, deck, show_pos, check_threads,
          apply_threads, utter_count, apply_count, select_count>>

schedVars == <<is_running, is_checking, periodic_check_id, timers, check_threads>>
voiceVars == <<voice_thread, orphan_voices>>
speechVars == <<speech_queue, speech_buffer, utter_count>>
buttonVars == <<start_button, stop_button, manual_generate_button>>
deckVars == <<deck, show_pos>>
selectVars == <<slide_updater, style_guide, select_count>>

\* ----------------------------------------------------------------- helpers
Range(s) == {s[i] : i \in 1..Len(s)}

\* a bag of threads: one started, one ended, one moved on
Spawned(threads, t) == threads (+) SetToBag({t})
Ended(threads, t) == threads (-) SetToBag({t})
Stepped(threads, t, u) == (threads (-) SetToBag({t})) (+) SetToBag({u})

InsertAt(s, i, x) == SubSeq(s, 1, i - 1) \o <<x>> \o SubSeq(s, i, Len(s))

\* ------------------------------------------------------------ speech buffer
\* an append that never drops
DequeAppendUnbounded(buf, x, n) == Append(buf, x)

\* deque(maxlen=n).append(x): the head is dropped when the deque is full
DequeAppend(buf, x, n) ==
    IF Len(buf) >= n THEN Append(Tail(buf), x) ELSE Append(buf, x)

RECURSIVE DequeExtend(_, _, _)
DequeExtend(buf, xs, n) ==
    IF xs = <<>> THEN buf
    ELSE DequeExtend(DequeAppend(buf, Head(xs), n), Tail(xs), n)

\* ------------------------------------------------------- content generator
\* Python's None
None == "<None>"

\* what the model answers to the deviation prompt; "fault" is a raised exception
DeviationResponses == {"fault", "", "None", "none", "NONE", "topic"}

\* a comparison that keeps the letter case
LowerIdentity(s) == s

\* str.lower() on the answers above
Lower(s) == IF s \in {"None", "none", "NONE"} THEN "none" ELSE s

\* ContentGenerator.check_for_deviation: the last line of the answer, or None.
\* An empty answer has no last line: splitlines()[-1] raises, which is caught.
check_for_deviation(response) ==
    IF response = "fault" \/ response = "" THEN None
    ELSE IF Lower(response) # "none" /\ response # "" THEN response
    ELSE None

\* what the model answers to the content prompt: a raised exception, text without
\* braces, braces that do not parse, the empty object, or an object that carries
\* chart_data and/or image_suggestion
ContentObjects == {"text", "chart", "image", "chart_image"}
ContentResponses == {"fault", "no_json", "bad_json", "{}"} \cup ContentObjects

\* ContentGenerator._extract_json
extract_json(text) ==
    IF text \in {"no_json", "bad_json"} THEN None ELSE text

\* Python truthiness of a parsed object: None and {} are falsy
Truthy(content) == content \notin {None, "{}"}

\* ContentGenerator.generate_slide_content
generate_slide_content(response) ==
    IF response = "fault" THEN None
    ELSE LET content_json == extract_json(response)
         IN  IF Truthy(content_json) THEN content_json ELSE None

\* content_json.get('chart_data') / content_json.get('image_suggestion')
HasChart(content) == content \in {"chart", "chart_image"}
HasImage(content) == content \in {"image", "chart_image"}

\* ----------------------------------------------------------- slide updater
\* a slide: was it created by this system, and its shapes in z-order
OriginalSlide == [gen |-> FALSE, shapes |-> <<"orig">>]

\* the deck Presentations.Open gives: every selected file holds two slides
FreshDeck == <<OriginalSlide, OriginalSlide>>

\* what create_chart, get_icon and get_image can return: None ("none") or the
\* path of a file they have just written
ChartResults == {"none", "chart.png"}
IconResults == {"none", "icon.png"}
ImageResults == {"none", "image.jpg"}

\* a resolution that asks for the image before the icon
resolve_visual_image_first(content, chart, icon, image) ==
    IF HasChart(content)
    THEN [path |-> chart, attempted |-> <<"create_chart">>]
    ELSE IF HasImage(content)
    THEN IF image # "none"
         THEN [path |-> image, attempted |-> <<"get_image">>]
         ELSE [path |-> icon, attempted |-> <<"get_image", "get_icon">>]
    ELSE [path |-> "none", attempted |-> <<>>]

\* visual_path after the lookups of _add_content_to_slide, given what each
\* lookup would return
visual_path(content, chart, icon, image) ==
    IF HasChart(content) THEN chart
    ELSE IF HasImage(content) THEN (IF icon # "none" THEN icon ELSE image)
    ELSE "none"

\* the lookups _add_content_to_slide calls, in order
lookups_called(content, icon) ==
    IF HasChart(content) THEN <<"create_chart">>
    ELSE IF HasImage(content)
    THEN (IF icon # "none" THEN <<"get_icon">> ELSE <<"get_icon", "get_image">>)
    ELSE <<>>

\* the visual lookups of _add_content_to_slide: the resulting visual_path and
\* the lookups called
resolve_visual(content, chart, icon, image) ==
    [path |-> visual_path(content, chart, icon, image),
     attempted |-> lookups_called(content, icon)]

\* `visual_path and os.path.exists(visual_path)`: "file" for a path (the lookups
\* return paths of files they have just written), "none" for None
Visual(path) == IF path = "none" THEN "none" ELSE "file"

\* the visuals _add_content_to_slide can end up with for a content
VisualPathsOf ==
    [content \in ContentObjects |->
        {Visual(visual_path(content, c, i, m)) :
            c \in ChartResults, i \in IconResults, m \in ImageResults}]
VisualPaths(content) == VisualPathsOf[content]

\* the shapes _add_content_to_slide adds, in order
ContentShapes(visual) ==
    (IF visual = "none" THEN <<"title_full", "body_full", "logo">>
     ELSE <<"title_left", "body_left", "logo">>)
    \o (IF visual = "file" THEN <<"picture">> ELSE <<>>)

\* COM steps of one mutation: 1 = Slides.Add / Slides(i) and the shape deletion,
\* 1 + j = j shapes laid out, Len + 2 = GotoSlide done.  A call that raises
\* stops after fewer steps.  FailPoints are the steps after which a COM call is
\* taken to raise: before the slide is touched, and once it is created/cleared.
\* With no style guide the title's font lookup (style_guide.get) raises after
\* the title box was added, if nothing raised earlier.
AllSteps(layout) == Len(layout) + 2
FailPoints == {0, 1}
LastStep(layout, style) == IF style = None THEN 2 ELSE AllSteps(layout)
StepsPossible(layout, style) ==
    {k \in 0..LastStep(layout, style) : k \in FailPoints \/ k = LastStep(layout, style)}

LaidOut(layout, steps) ==
    SubSeq(layout, 1, IF steps - 1 > Len(layout) THEN Len(layout) ELSE steps - 1)

\* an insert that puts the new slide at the current index
InsertAtCurrent(d, pos, slide_index, layout, steps) ==
    IF pos = 0 \/ steps = 0 \/ slide_index > Len(d) + 1
    THEN [deck |-> d, show_pos |-> pos]
    ELSE [deck |-> InsertAt(d, slide_index,
                            [gen |-> TRUE, shapes |-> LaidOut(layout, steps)]),
          show_pos |-> IF steps = AllSteps(layout) THEN slide_index ELSE pos]

\* SlideUpdater.insert_new_slide_after_current, as [deck, show_pos]
insert_new_slide_after_current(d, pos, slide_index, layout, steps) ==
    LET new_slide_index == slide_index + 1
    IN  IF pos = 0 \/ steps = 0 \/ new_slide_index > Len(d) + 1
        THEN [deck |-> d, show_pos |-> pos]
        ELSE [deck |-> InsertAt(d, new_slide_index,
                                [gen |-> TRUE, shapes |-> LaidOut(layout, steps)]),
              show_pos |-> IF steps = AllSteps(layout) THEN new_slide_index
                           ELSE IF new_slide_index <= pos THEN pos + 1
                           ELSE pos]

\* an update that keeps the shapes it finds on the slide
UpdateKeepingShapes(d, pos, slide_index, layout, steps) ==
    IF pos = 0 \/ steps = 0 \/ slide_index > Len(d)
    THEN [deck |-> d, show_pos |-> pos]
    ELSE [deck |-> [d EXCEPT ![slide_index].shapes = @ \o LaidOut(layout, steps)],
          show_pos |-> IF steps = AllSteps(layout) THEN slide_index ELSE pos]

\* SlideUpdater.update_existing_slide, as [deck, show_pos]
update_existing_slide(d, pos, slide_index, layout, steps) ==
    IF pos = 0 \/ steps = 0 \/ slide_index > Len(d)
    THEN [deck |-> d, show_pos |-> pos]
    ELSE [deck |-> [d EXCEPT ![slide_index].shapes = LaidOut(layout, steps)],
          show_pos |-> IF steps = AllSteps(layout) THEN slide_index ELSE pos]

\* -------------------------------------------------------------- initial state
\* Application.__init__
Init ==
    /\ is_running = FALSE
    /\ is_checking = FALSE
    /\ periodic_check_id = "none"
    /\ timers = 0
    /\ voice_thread = "none"
    /\ orphan_voices = 0
    /\ speech_queue = <<>>
    /\ speech_buffer = <<>>
    /\ generated_slide_indices = {}
    /\ slide_updater = None
    /\ style_guide = None
    /\ start_button = FALSE
    /\ stop_button = FALSE
    /\ manual_generate_button = FALSE
    /\ status = "Idle"
    /\ deck = <<>>
    /\ show_pos = 0
    /\ check_threads = EmptyBag
    /\ apply_threads = EmptyBag
    /\ utter_count = 0
    /\ apply_count = 0
    /\ select_count = 0

\* ------------------------------------------------------------- deck selection
\* how select_file_and_start_show can end: the dialog is cancelled, get_style()
\* returns None, the analysis raises, the slide show fails to start, all is well
SelectOutcomes == {"cancel", "no_style", "error", "show_failed", "ok"}

\* Application.select_file_and_start_show; every selection names a file that
\* was not opened before, so its deck is as on disk
select_file_and_start_show(outcome, limit) ==
    /\ outcome \in SelectOutcomes
    /\ IF outcome = "cancel"
       THEN UNCHANGED vars
       ELSE /\ select_count < limit
            /\ select_count' = select_count + 1
            /\ generated_slide_indices' = {}
            /\ style_guide' = IF outcome = "no_style" THEN None
                              ELSE IF outcome = "error" THEN style_guide
                              ELSE "guide"
            /\ IF outcome \in {"show_failed", "ok"}
               THEN /\ slide_updater' = "SlideUpdater"
                    /\ deck' = FreshDeck
                    /\ show_pos' = IF outcome = "ok" THEN 1 ELSE 0
               ELSE UNCHANGED <<slide_updater, deck, show_pos>>
            /\ IF outcome = "ok"
               THEN /\ start_button' = TRUE
                    /\ manual_generate_button' = TRUE
                    /\ status' = "Ready"
               ELSE UNCHANGED <<start_button, manual_generate_button, status>>
            /\ UNCHANGED <<schedVars, voiceVars, speechVars, stop_button,
                           apply_threads, apply_count>>

\* ------------------------------------------------------------------ scheduler
\* a thread that has just been handed run_deviation_check
NewCheck == [pc |-> "start", current_index |-> 0, snapshot |-> <<>>]

\* the spawn test with the in-flight flag forgotten
CanSpawnCheckNoFlag(running, checking) == running

\* the test of periodic_check that guards the spawn
CanSpawnCheck(running, checking) == running /\ ~checking

\* Application.periodic_check, called with is_running as `running` and the
\* timer state the caller leaves behind
periodic_check(running, pending, id) ==
    /\ IF CanSpawnCheck(running, is_checking)
       THEN /\ is_checking' = TRUE
            /\ check_threads' = Spawned(check_threads, NewCheck)
       ELSE UNCHANGED <<is_checking, check_threads>>
    /\ IF running
       THEN /\ timers' = pending + 1
            /\ periodic_check_id' = "live"
       ELSE /\ timers' = pending
            /\ periodic_check_id' = id

\* Application.start_processing (the Start button)
start_processing ==
    /\ start_button
    /\ is_running' = TRUE
    /\ start_button' = FALSE
    /\ stop_button' = TRUE
    /\ status' = "Listening"
    /\ periodic_check(TRUE, timers, periodic_check_id)
    /\ voice_thread' = "alive"
    /\ orphan_voices' = IF voice_thread = "alive" THEN orphan_voices + 1
                        ELSE orphan_voices
    /\ UNCHANGED <<speechVars, generated_slide_indices, selectVars,
                   manual_generate_button, deckVars, apply_threads, apply_count>>

\* a stop that leaves the voice thread running
NotJoined(thread) == thread

\* the voice thread after stop() and join(), which stop_processing calls on a
\* thread that is alive
Joined(thread) == IF thread = "alive" THEN "dead" ELSE thread

\* Application.stop_processing (the Stop button)
stop_processing ==
    /\ stop_button
    /\ periodic_check_id' = "none"
    /\ timers' = IF periodic_check_id = "live" THEN timers - 1 ELSE timers
    /\ voice_thread' = Joined(voice_thread)
    /\ is_running' = FALSE
    /\ start_button' = TRUE
    /\ stop_button' = FALSE
    /\ status' = "Stopped"
    /\ UNCHANGED <<is_checking, check_threads, orphan_voices, speechVars,
                   generated_slide_indices, selectVars, manual_generate_button,
                   deckVars, apply_threads, apply_count>>

\* a pending after(8000, periodic_check) fires: the one periodic_check_id names
\* ("named") or one scheduled by an earlier start that was never cancelled
TimerFires(which) ==
    /\ which \in {"named", "orphan"}
    /\ IF which = "named"
       THEN /\ periodic_check_id = "live"
            /\ periodic_check(is_running, timers - 1, "stale")
       ELSE /\ timers > (IF periodic_check_id = "live" THEN 1 ELSE 0)
            /\ periodic_check(is_running, timers - 1, periodic_check_id)
    /\ UNCHANGED <<is_running, voiceVars, speechVars, generated_slide_indices,
                   selectVars, buttonVars, status, deckVars, apply_threads,
                   apply_count>>

\* ------------------------------------------------------------- transcription
\* VoiceProcessor._audio_callback: a non-blank transcription is put on the queue
audio_callback(limit) ==
    /\ voice_thread = "alive" \/ orphan_voices > 0
    /\ utter_count < limit
    /\ utter_count' = utter_count + 1
    /\ speech_queue' = Append(speech_queue, utter_count + 1)
    /\ UNCHANGED <<schedVars, voiceVars, speech_buffer, generated_slide_indices, selectVars, buttonVars, status,
                   deckVars, apply_threads, apply_count>>

\* Application.process_speech_queue (every 200 ms on the main thread)
process_speech_queue ==
    /\ speech_queue # <<>>
    /\ speech_buffer' = DequeExtend(speech_buffer, speech_queue, BUFFER_MAXLEN)
    /\ speech_queue' = <<>>
    /\ UNCHANGED <<schedVars, voiceVars, utter_count, generated_slide_indices, selectVars, buttonVars, status,
                   deckVars, apply_threads, apply_count>>

\* ------------------------------------------------------- update coordinator
\* a thread that has just been handed _generate_and_apply; origin is the caller
\* of handle_update: "auto" (run_deviation_check) or "manual"
NewApply(origin, slide_index, is_update) ==
    [origin |-> origin, slide_index |-> slide_index, is_update |-> is_update,
     pc |-> "generate", content |-> None]

\* Application.handle_update
handle_update(origin, slide_index, is_update) ==
    /\ status' = "Generating"
    /\ apply_threads' = Spawned(apply_threads, NewApply(origin, slide_index, is_update))
    /\ apply_count' = apply_count + 1

\* what the topic entry can hold, and str.strip() on it
ManualTopics == {"", " ", "topic"}
Strip(s) == IF s = " " THEN "" ELSE s

\* a manual request that updates a slide it finds tracked
ManualIsUpdateIfTracked(current_index, tracked) == current_index \in tracked

\* the is_update argument handle_manual_generate passes to handle_update
ManualIsUpdate(current_index, tracked) == FALSE

\* Application.handle_manual_generate (the Generate button)
handle_manual_generate(topic, limit) ==
    /\ manual_generate_button
    /\ topic \in ManualTopics
    /\ IF Strip(topic) = "" \/ slide_updater = None \/ show_pos = 0
       THEN UNCHANGED vars
       ELSE /\ apply_count < limit
            /\ handle_update("manual", show_pos,
                             ManualIsUpdate(show_pos, generated_slide_indices))
            /\ UNCHANGED <<schedVars, voiceVars, speechVars,
                           generated_slide_indices, selectVars, buttonVars,
                           deckVars>>

\* the content test with None let through
ContentOkAlways(content) == TRUE

\* the test `if content:` of _generate_and_apply
ContentOk(content) == Truthy(content)

\* _generate_and_apply up to the mutation: generate_slide_content returns
\* `content`, and the thread either announces the mutation or reports the
\* failure and ends
GenerateStep(t, content) ==
    /\ t \in BagToSet(apply_threads)
    /\ t.pc = "generate"
    /\ content \in {generate_slide_content(r) : r \in ContentResponses}
    /\ IF ContentOk(content)
       THEN /\ status' = IF t.is_update THEN "Updating" ELSE "Inserting"
            /\ apply_threads' = Stepped(apply_threads, t,
                                        [t EXCEPT !.pc = "mutate", !.content = content])
       ELSE /\ status' = "Failed"
            /\ apply_threads' = Ended(apply_threads, t)
    /\ UNCHANGED <<schedVars, voiceVars, speechVars, generated_slide_indices,
                   selectVars, buttonVars, deckVars, apply_count>>

\* _generate_and_apply from the mutation on: the SlideUpdater call, the tracking
\* of the new index after an insert, the status
MutateStep(t, visual, steps) ==
    /\ t \in BagToSet(apply_threads)
    /\ t.pc = "mutate"
    /\ LET layout == ContentShapes(visual)
       IN  /\ visual \in VisualPaths(t.content)
           /\ steps \in StepsPossible(layout, style_guide)
           /\ LET after == IF t.is_update
                           THEN update_existing_slide(deck, show_pos, t.slide_index,
                                                      layout, steps)
                           ELSE insert_new_slide_after_current(deck, show_pos,
                                                      t.slide_index, layout, steps)
              IN  /\ deck' = after.deck
                  /\ show_pos' = after.show_pos
    /\ generated_slide_indices' =
          IF t.is_update THEN generated_slide_indices
          ELSE generated_slide_indices \cup {t.slide_index + 1}
    /\ status' = "Listening"
    /\ apply_threads' = Ended(apply_threads, t)
    /\ UNCHANGED <<schedVars, voiceVars, speechVars, selectVars, buttonVars,
                   apply_count>>

\* ---------------------------------------------------------- deviation cycle
\* a cycle that ends without clearing the flag
FlagLeftSet == TRUE

\* is_checking as the finally block of run_deviation_check leaves it
FlagAfterCycle == FALSE

\* the early returns with the utterance threshold off by one
CycleReturnsEarlyOffByOne(updater, buffer, current_index) ==
    \/ updater = None \/ Len(buffer) < MIN_UTTERANCES - 1
    \/ current_index = 0

\* the early returns of run_deviation_check: no updater or fewer than three
\* utterances, then no current slide index (get_current_slide_index gave None)
CycleReturnsEarly(updater, buffer, current_index) ==
    \/ updater = None \/ Len(buffer) < MIN_UTTERANCES
    \/ current_index = 0

\* run_deviation_check up to the remote call: the preconditions, the reading of
\* the slide and of the buffer; a cycle whose preconditions fail ends here
ReadStep(t) ==
    /\ t \in BagToSet(check_threads)
    /\ t.pc = "start"
    /\ IF CycleReturnsEarly(slide_updater, speech_buffer, show_pos)
       THEN /\ check_threads' = Ended(check_threads, t)
            /\ is_checking' = FlagAfterCycle
            /\ UNCHANGED status
       ELSE /\ check_threads' = Stepped(check_threads, t,
                                        [pc |-> "judge", current_index |-> show_pos,
                                         snapshot |-> speech_buffer])
            /\ status' = "Analyzing"
            /\ UNCHANGED is_checking
    /\ UNCHANGED <<is_running, periodic_check_id, timers, voiceVars, speechVars,
                   generated_slide_indices, selectVars, buttonVars, deckVars,
                   apply_threads, apply_count>>

\* a classification that always inserts
IsUpdateActionNever(current_index, tracked) == FALSE

\* is_update_action of run_deviation_check
IsUpdateAction(current_index, tracked) == current_index \in tracked

\* the test `if new_topic:` of run_deviation_check
Deviates(new_topic) == new_topic # None /\ new_topic # ""

\* a cycle that empties the buffer whatever the judgment
BufferAlwaysCleared(buffer, new_topic) == <<>>

\* the speech buffer a cycle leaves: cleared under `if new_topic:`, else as it was
BufferAfterJudgment(buffer, new_topic) ==
    IF Deviates(new_topic) THEN <<>> ELSE buffer

\* run_deviation_check from the answer of check_for_deviation, `new_topic`, on
JudgeStep(t, new_topic, limit) ==
    /\ t \in BagToSet(check_threads)
    /\ t.pc = "judge"
    /\ new_topic \in {check_for_deviation(r) : r \in DeviationResponses}
    /\ speech_buffer' = BufferAfterJudgment(speech_buffer, new_topic)
    /\ IF Deviates(new_topic)
       THEN /\ apply_count < limit
            /\ handle_update("auto", t.current_index,
                             IsUpdateAction(t.current_index, generated_slide_indices))
       ELSE /\ status' = "Listening"
            /\ UNCHANGED <<apply_threads, apply_count>>
    /\ check_threads' = Ended(check_threads, t)
    /\ is_checking' = FlagAfterCycle
    /\ UNCHANGED <<is_running, periodic_check_id, timers, voiceVars, speech_queue,
                   utter_count, generated_slide_indices, selectVars, buttonVars,
                   deckVars>>

\* ------------------------------------------------------------- the presenter
\* the presenter moves the slide show to another slide
Navigate(p) ==
    /\ show_pos # 0
    /\ p \in 1..Len(deck)
    /\ p # show_pos
    /\ show_pos' = p
    /\ UNCHANGED <<schedVars, voiceVars, speechVars, generated_slide_indices,
                   selectVars, buttonVars, status, deck, apply_threads, apply_count>>

\* the presenter ends the slide show
EndShow ==
    /\ show_pos # 0
    /\ show_pos' = 0
    /\ UNCHANGED <<schedVars, voiceVars, speechVars, generated_slide_indices,
                   selectVars, buttonVars, status, deck, apply_threads, apply_count>>

\* ------------------------------------------------------------ specifications
Select(limit) == \E o \in SelectOutcomes : select_file_and_start_show(o, limit)
Start == start_processing
Stop == stop_processing
Tick == \E w \in {"named", "orphan"} : TimerFires(w)
Transcribe(limit) == audio_callback(limit)
Drain == process_speech_queue
Manual(limit) == \E topic \in ManualTopics : handle_manual_generate(topic, limit)
Generate ==
    \E t \in BagToSet(apply_threads) :
        \E c \in {generate_slide_content(r) : r \in ContentResponses} : GenerateStep(t, c)
Mutate ==
    \E t \in {u \in BagToSet(apply_threads) : u.pc = "mutate"} :
        \E v \in VisualPaths(t.content) :
            \E k \in StepsPossible(ContentShapes(v), style_guide) : MutateStep(t, v, k)
Read == \E t \in BagToSet(check_threads) : ReadStep(t)
Judge(limit) ==
    \E t \in BagToSet(check_threads) :
        \E n \in {check_for_deviation(r) : r \in DeviationResponses} :
            JudgeStep(t, n, limit)
Move == \E p \in 1..Len(deck) : Navigate(p)

\* every operation of the program and of its environment
Next ==
    \/ Select(MaxSelect)
    \/ Start
    \/ Stop
    \/ Tick
    \/ Transcribe(MaxUtter)
    \/ Drain
    \/ Manual(MaxApplies)
    \/ Generate
    \/ Mutate
    \/ Read
    \/ Judge(MaxApplies)
    \/ Move
    \/ EndShow

Spec == Init /\ [][Next]_vars

\* the same operations under the wider bounds
NextWide ==
    \/ Select(WideSelect)
    \/ Start
    \/ Stop
    \/ Tick
    \/ Transcribe(WideUtter)
    \/ Drain
    \/ Manual(WideApplies)
    \/ Generate
    \/ Mutate
    \/ Read
    \/ Judge(WideApplies)
    \/ Move
    \/ EndShow

SpecWide == Init /\ [][NextWide]_vars

\* the speech buffer alone: a deck is selected, the enhancer was started, and
\* the transcriber delivers utterances that the main thread moves to the buffer
InitBuffer ==
    /\ is_running = TRUE
    /\ is_checking = TRUE
    /\ periodic_check_id = "live"
    /\ timers = 1
    /\ voice_thread = "alive"
    /\ orphan_voices = 0
    /\ speech_queue = <<>>
    /\ speech_buffer = <<>>
    /\ generated_slide_indices = {}
    /\ slide_updater = "SlideUpdater"
    /\ style_guide = "guide"
    /\ start_button = FALSE
    /\ stop_button = TRUE
    /\ manual_generate_button = TRUE
    /\ status = "Listening"
    /\ deck = FreshDeck
    /\ show_pos = 1
    /\ check_threads = SetToBag({NewCheck})
    /\ apply_threads = EmptyBag
    /\ utter_count = 0
    /\ apply_count = 0
    /\ select_count = 1

NextBuffer ==
    \/ Transcribe(MaxPush)
    \/ Drain

SpecBuffer == InitBuffer /\ [][NextBuffer]_vars

\* the slide a complete insert of a text-only content leaves in the deck
InsertedSlide == [gen |-> TRUE, shapes |-> ContentShapes("none")]

\* the enhancer listening on a slide it inserted: the state after a selection, a
\* manual insert after slide 1 that ran to the end, and start_processing
InitTracked ==
    /\ is_running = TRUE
    /\ is_checking = TRUE
    /\ periodic_check_id = "live"
    /\ timers = 1
    /\ voice_thread = "alive"
    /\ orphan_voices = 0
    /\ speech_queue = <<>>
    /\ speech_buffer = <<>>
    /\ generated_slide_indices = {2}
    /\ slide_updater = "SlideUpdater"
    /\ style_guide = "guide"
    /\ start_button = FALSE
    /\ stop_button = TRUE
    /\ manual_generate_button = TRUE
    /\ status = "Listening"
    /\ deck = InsertAt(FreshDeck, 2, InsertedSlide)
    /\ show_pos = 2
    /\ check_threads = SetToBag({NewCheck})
    /\ apply_threads = EmptyBag
    /\ utter_count = 0
    /\ apply_count = 1
    /\ select_count = 1

\* the operations on the selected deck, the insert of InitTracked counted
NextTracked ==
    \/ Start
    \/ Stop
    \/ Tick
    \/ Transcribe(MaxUtter)
    \/ Drain
    \/ Manual(MaxApplies + 1)
    \/ Generate
    \/ Mutate
    \/ Read
    \/ Judge(MaxApplies + 1)
    \/ Move
    \/ EndShow

SpecTracked == InitTracked /\ [][NextTracked]_vars

\* a manual request in flight: the state after a selection and a click on
\* Generate with a topic entered
InitReselect ==
    /\ is_running = FALSE
    /\ is_checking = FALSE
    /\ periodic_check_id = "none"
    /\ timers = 0
    /\ voice_thread = "none"
    /\ orphan_voices = 0
    /\ speech_queue = <<>>
    /\ speech_buffer = <<>>
    /\ generated_slide_indices = {}
    /\ slide_updater = "SlideUpdater"
    /\ style_guide = "guide"
    /\ start_button = TRUE
    /\ stop_button = FALSE
    /\ manual_generate_button = TRUE
    /\ status = "Generating"
    /\ deck = FreshDeck
    /\ show_pos = 1
    /\ check_threads = EmptyBag
    /\ apply_threads = SetToBag({NewApply("manual", 1, FALSE)})
    /\ utter_count = 0
    /\ apply_count = 1
    /\ select_count = 1

\* further selections while that request runs, with no further request
NextReselect ==
    \/ Select(MaxReselect)
    \/ Start
    \/ Stop
    \/ Tick
    \/ Generate
    \/ Mutate
    \/ Read
    \/ Move
    \/ EndShow

SpecReselect == InitReselect /\ [][NextReselect]_vars

\* the listening enhancer of InitBuffer with its detection cycles and update
\* threads; a detection thread that can take a step eventually takes one (the
\* thread is scheduled, the remote call returns or raises)
NextCycle ==
    \/ Start
    \/ Stop
    \/ Tick
    \/ Transcribe(MaxUtter)
    \/ Drain
    \/ Read
    \/ Judge(MaxApplies)
    \/ Generate
    \/ Mutate
    \/ Move
    \/ EndShow

SpecCycle ==
    /\ InitBuffer
    /\ [][NextCycle]_vars
    /\ WF_vars(Read)
    /\ WF_vars(Judge(MaxApplies))

\* --------------------------------------------------------------------- claims
\* a step in which an update thread ends or moves on
ApplyActs == apply_threads' # apply_threads /\ apply_count' = apply_count

\* a step in which detection thread t ends
CheckEnds(t) ==
    /\ t \in BagToSet(check_threads)
    /\ check_threads' = Ended(check_threads, t)

\* the layouts of a slide whose content was laid out to the end
CompleteLayouts == {ContentShapes("none"), ContentShapes("file")}

\* C1: at most one apply (generate, resolve visual, mutate deck) is in flight at
\* any time; a second request never runs beside the first.
C1_OneApplyInFlight == BagCardinality(apply_threads) <= 1

\* C2: at most one detection cycle is in flight at any time, and one is in
\* flight only under the is_checking flag, whatever start, stop and the timer do.
C2_OneCheckInFlight ==
    /\ BagCardinality(check_threads) <= 1
    /\ BagCardinality(check_threads) = 1 => is_checking

\* C2 witness: the enhancer was stopped and started again while a detection
\* cycle was waiting for its judgment; the start spawned no second cycle.
C2_Witness ==
    /\ is_running
    /\ status = "Listening"
    /\ apply_count = 0
    /\ \E t \in BagToSet(check_threads) : t.pc = "judge"

\* C3: a detection cycle that finds a deviation after the system has stopped
\* dispatches no update.
C3_NoDispatchWhenStopped ==
    [][(apply_count' = apply_count + 1 /\ check_threads' # check_threads)
          => is_running]_vars

\* C4: when a detection cycle clears the buffer, every utterance it discards
\* was in the snapshot it handed to the detector: none is discarded unseen.
C4_NothingDiscardedUnseen ==
    [][\A t \in BagToSet(check_threads) :
          (CheckEnds(t) /\ speech_buffer' = <<>>)
             => Range(speech_buffer) \subseteq Range(t.snapshot)]_vars

\* C5: once a detection cycle has taken a snapshot and ended, none of the
\* utterances of that snapshot remains in the buffer, whatever the outcome.
C5_SnapshotLeavesBuffer ==
    [][\A t \in BagToSet(check_threads) :
          (CheckEnds(t) /\ t.pc = "judge")
             => Range(speech_buffer') \cap Range(t.snapshot) = {}]_vars

\* the ids lo+1 .. hi in order
Run(lo, hi) == [i \in 1..(hi - lo) |-> lo + i]

\* utterances moved from the queue to the buffer so far (SpecBuffer never clears)
Pushed == utter_count - Len(speech_queue)

\* C6: the buffer never holds more than BUFFER_MAXLEN utterances, and it holds
\* exactly the most recently pushed ones in arrival order, the oldest dropped.
C6_BufferKeepsMostRecent ==
    /\ Len(speech_buffer) <= BUFFER_MAXLEN
    /\ speech_buffer =
          Run(IF Pushed > BUFFER_MAXLEN THEN Pushed - BUFFER_MAXLEN ELSE 0, Pushed)

\* C6 witness: more than BUFFER_MAXLEN utterances were pushed, the last two of
\* them in one poll, and the oldest are gone.
C6_Witness ==
    /\ Pushed = BUFFER_MAXLEN + 2
    /\ speech_queue = <<>>
    /\ Len(speech_buffer) = BUFFER_MAXLEN
    /\ speech_buffer[1] = 3

\* C7: check_for_deviation is invoked only by a cycle that saw a slide updater,
\* a current slide index and at least MIN_UTTERANCES utterances, which are still
\* buffered; a cycle that returns early changes neither the buffer, the tracked
\* set, the deck nor the update threads.
C7_JudgedOnlyWithPreconditions ==
    /\ [](\A t \in BagToSet(check_threads) :
             t.pc = "judge" =>
                /\ Len(t.snapshot) >= MIN_UTTERANCES
                /\ Len(speech_buffer) >= MIN_UTTERANCES
                /\ t.current_index # 0
                /\ slide_updater # None)
    /\ [][\A t \in BagToSet(check_threads) :
             (CheckEnds(t) /\ t.pc = "start")
                => UNCHANGED <<speech_buffer, generated_slide_indices, deck,
                               show_pos, apply_threads, apply_count, status>>]_vars

\* C7 witness: the cycle spawned by start has ended with fewer than
\* MIN_UTTERANCES utterances buffered, and nothing was ever dispatched.
C7_Witness ==
    /\ is_running
    /\ ~is_checking
    /\ check_threads = EmptyBag
    /\ Len(speech_buffer) = MIN_UTTERANCES - 1
    /\ apply_count = 0
    /\ status = "Listening"

C9_TrackedOnlyOnSuccess ==
    [][\A i \in generated_slide_indices' \ generated_slide_indices :
          /\ Len(deck') = Len(deck) + 1
          /\ deck'[i].gen
          /\ deck'[i].shapes \in CompleteLayouts
          /\ show_pos' = i]_vars

\* C10: a mutation that does not run to the end leaves the deck as it was: an
\* update thread changes the deck only by a slide that is laid out to the end
\* and shown.
C10_FailureLeavesDeck ==
    [][(ApplyActs /\ deck' # deck)
          => /\ show_pos' \in 1..Len(deck')
             /\ deck'[show_pos'].shapes \in CompleteLayouts]_vars

\* a step in which update thread t ends after its SlideUpdater call
MutationEnds(t) ==
    /\ t \in BagToSet(apply_threads)
    /\ t.pc = "mutate"
    /\ apply_threads' = Ended(apply_threads, t)

\* the slide the mutation of update thread t is aimed at
Target(t) == IF t.is_update THEN t.slide_index ELSE t.slide_index + 1

\* the step left the target of t laid out to the end and shown
MutationSucceeded(t) ==
    /\ Len(deck') = (IF t.is_update THEN Len(deck) ELSE Len(deck) + 1)
    /\ Target(t) \in 1..Len(deck')
    /\ deck'[Target(t)].shapes \in CompleteLayouts
    /\ show_pos' = Target(t)

\* C11: a mutation that does not run to the end (no slide show, a failed COM
\* call, a layout that raises) is reported: the status it leaves differs from
\* the status a successful mutation leaves.
C11_FailedMutationReported ==
    [][\A t \in BagToSet(apply_threads) :
          (MutationEnds(t) /\ ~MutationSucceeded(t)) => status' # "Listening"]_vars

\* C12: every tracked index denotes a slide of the deck that this system
\* created, also after a later insert has shifted the slides.
C12_TrackedAreGenerated ==
    \A i \in generated_slide_indices : i \in 1..Len(deck) /\ deck[i].gen

\* C13: a deviation found by a cycle that read current slide index i is
\* dispatched as one update thread for slide i, an update when i is tracked at
\* that moment and an insert otherwise.
C13_ClassifiedByTrackedSet ==
    [][\A t \in BagToSet(check_threads) :
          (CheckEnds(t) /\ apply_count' = apply_count + 1)
             => apply_threads' =
                   Spawned(apply_threads,
                           NewApply("auto", t.current_index,
                                    t.current_index \in generated_slide_indices))]_vars

\* C13 witness: a deviation found on the slide this system inserted is in
\* flight as an update of that slide.
C13_Witness ==
    /\ generated_slide_indices = {2}
    /\ deck[2].gen
    /\ \E t \in BagToSet(apply_threads) :
          t.origin = "auto" /\ t.slide_index = 2 /\ t.is_update

\* the step is a run of insert_new_slide_after_current for update thread t that
\* reached its end and changed the deck
InsertRanToEnd(t) ==
    /\ MutationEnds(t)
    /\ ~t.is_update
    /\ \E v \in VisualPaths(t.content) :
          LET layout == ContentShapes(v)
              after == insert_new_slide_after_current(deck, show_pos, t.slide_index,
                                                      layout, AllSteps(layout))
          IN  /\ after.deck # deck
              /\ deck' = after.deck
              /\ show_pos' = after.show_pos

\* C14: an insert for current slide index i that runs to the end adds exactly
\* one slide, at position i+1 and laid out completely, keeps every other slide
\* in order, tracks i+1 and leaves the show on slide i+1.
C14_InsertCreatesTracksShows ==
    [][\A t \in BagToSet(apply_threads) :
          InsertRanToEnd(t) =>
             LET n == t.slide_index + 1
             IN  /\ Len(deck') = Len(deck) + 1
                 /\ n \in 1..Len(deck')
                 /\ deck'[n].gen
                 /\ deck'[n].shapes \in CompleteLayouts
                 /\ \A j \in 1..Len(deck) :
                       deck[j] = deck'[IF j < n THEN j ELSE j + 1]
                 /\ generated_slide_indices' = generated_slide_indices \cup {n}
                 /\ show_pos' = n]_vars

\* C14 witness: an insert requested on slide 3 of the three-slide deck has run
\* to the end with a picture: the new slide is slide 4, tracked and shown.
C14_Witness ==
    /\ apply_count = 2
    /\ apply_threads = EmptyBag
    /\ deck = Append(InsertAt(FreshDeck, 2, InsertedSlide),
                     [gen |-> TRUE, shapes |-> ContentShapes("file")])
    /\ generated_slide_indices = {2, 4}
    /\ show_pos = 4
    /\ status = "Listening"

\* C15: a manual request is dispatched as an insert after the current slide,
\* also when that slide is tracked, and the step neither starts nor advances a
\* detection cycle nor touches the speech buffer.
C15_ManualAlwaysInserts ==
    [][\A t \in BagToSet(apply_threads') :
          (t.origin = "manual" /\ apply_threads' = Spawned(apply_threads, t))
             => /\ ~t.is_update
                /\ t.slide_index = show_pos
                /\ t.pc = "generate"
                /\ UNCHANGED <<check_threads, is_checking, speech_buffer>>]_vars

\* C15 witness: a manual request made on the tracked slide is in flight as an
\* insert.
C15_Witness ==
    /\ 2 \in generated_slide_indices
    /\ deck[2].gen
    /\ \E t \in BagToSet(apply_threads) :
          t.origin = "manual" /\ t.slide_index = 2 /\ ~t.is_update

\* C16: when stop declares the system stopped, no detection cycle is in
\* flight.
C16_StopWaitsForCheck ==
    [][(is_running /\ ~is_running')
          => (status' = "Stopped" /\ check_threads' = EmptyBag)]_vars

\* C17: while the system is stopped no periodic timer is pending.
C17_NoTimerWhenStopped == ~is_running => timers = 0

\* C18: the step in which stop ends the running state leaves the voice thread
\* that start created terminated, and it is never alive while the system is
\* stopped.
C18_ProducerJoinedByStop ==
    /\ [][(is_running /\ ~is_running') => voice_thread' = "dead"]_vars
    /\ [](~is_running => voice_thread # "alive")

\* C18 witness: stopped after the producer had delivered an utterance.
C18_Witness ==
    /\ ~is_running
    /\ status = "Stopped"
    /\ voice_thread = "dead"
    /\ utter_count > 0

\* C19: once a further deck has been loaded and shown (the status still says
\* Ready), no step puts an index in the tracked set: in SpecReselect the only
\* update thread is the one started for the previous deck.
C19_NothingFromPreviousDeck ==
    [][(select_count > 1 /\ status = "Ready")
          => generated_slide_indices' = {}]_vars

\* update_existing_slide run to the end for slide i with one content and one
\* visual, once and twice
UpdatedOnce(i, layout) ==
    update_existing_slide(deck, show_pos, i, layout, AllSteps(layout))
UpdatedTwice(i, layout) ==
    update_existing_slide(UpdatedOnce(i, layout).deck, UpdatedOnce(i, layout).show_pos,
                          i, layout, AllSteps(layout))

\* C20: on every slide of every deck the program reaches, whatever shapes the
\* slide holds, an update run to the end leaves exactly the shapes of the
\* content, and running it again with the same content and visual changes
\* nothing.
C20_UpdateIdempotent ==
    \A i \in 1..Len(deck) : \A layout \in CompleteLayouts :
        /\ UpdatedTwice(i, layout) = UpdatedOnce(i, layout)
        /\ show_pos # 0 => UpdatedOnce(i, layout).deck[i].shapes = layout

\* C20 witness: the slide this system inserted, laid out without a picture,
\* was updated with a picture; its earlier shapes are gone.
C20_Witness ==
    /\ Len(deck) = 3
    /\ generated_slide_indices = {2}
    /\ apply_count = 2
    /\ apply_threads = EmptyBag
    /\ deck[2].shapes = ContentShapes("file")

\* C21: for every content that reaches the mutation and whatever the lookups
\* return: with a chart only create_chart is called; otherwise with an image
\* suggestion get_icon is called first and get_image only when get_icon gave
\* nothing; with neither no lookup is called; and when no path results the
\* slide is laid out full width without a picture.
C21_VisualPreferenceOrder ==
    \A t \in BagToSet(apply_threads) :
       t.pc = "mutate" =>
          \A c \in ChartResults, i \in IconResults, m \in ImageResults :
             LET r == resolve_visual(t.content, c, i, m)
             IN  /\ HasChart(t.content)
                    => (r.attempted = <<"create_chart">> /\ r.path = c)
                 /\ (~HasChart(t.content) /\ HasImage(t.content))
                    => /\ r.attempted = (IF i = "none" THEN <<"get_icon", "get_image">>
                                         ELSE <<"get_icon">>)
                       /\ r.path = (IF i = "none" THEN m ELSE i)
                 /\ (~HasChart(t.content) /\ ~HasImage(t.content))
                    => (r.attempted = <<>> /\ r.path = "none")
                 /\ r.path = "none"
                    => ContentShapes(Visual(r.path)) =
                          <<"title_full", "body_full", "logo">>
                 /\ Visual(r.path) \in VisualPaths(t.content)

\* C21 witness: a content with an image suggestion and no chart has reached the
\* mutation of a running enhancer's automatic update.
C21_Witness ==
    \E t \in BagToSet(apply_threads) :
       t.pc = "mutate" /\ t.content = "image" /\ t.origin = "auto" /\ t.is_update

\* C22: no content that reaches the mutation carries both a chart
\* specification and an image suggestion.
C22_ChartExcludesImage ==
    \A t \in BagToSet(apply_threads) :
       t.pc = "mutate" => ~(HasChart(t.content) /\ HasImage(t.content))

\* the answers that are no judgment: a fault of the remote call, an empty
\* answer, the word none in any letter case
QuietResponses == {"fault", "", "None", "none", "NONE"}

\* C23: whenever a cycle waits for its judgment, none of the quiet answers
\* counts as a deviation; and a cycle that ends without dispatching leaves the
\* deck, the show, the tracked set, the update threads and the buffer as they
\* were and sets the status to Listening.
C23_QuietJudgmentIsNoDeviation ==
    /\ [](\A t \in BagToSet(check_threads) :
             t.pc = "judge" =>
                \A r \in QuietResponses : ~Deviates(check_for_deviation(r)))
    /\ [][\A t \in BagToSet(check_threads) :
             (CheckEnds(t) /\ t.pc = "judge" /\ apply_count' = apply_count)
                => /\ status' = "Listening"
                   /\ UNCHANGED <<deck, show_pos, generated_slide_indices,
                                  apply_threads, speech_buffer>>]_vars

\* C23 witness: a cycle that outlived a stop has ended on a quiet answer: the
\* status is Listening again, nothing was dispatched, the buffer is intact.
C23_Witness ==
    /\ ~is_running
    /\ status = "Listening"
    /\ check_threads = EmptyBag
    /\ apply_threads = EmptyBag
    /\ apply_count = 1
    /\ Len(speech_buffer) = MIN_UTTERANCES

\* C24: whenever the check-in-flight flag is set, it is eventually cleared.
C24_FlagEventuallyCleared == is_checking ~> ~is_checking

\* C24 witness: a cycle of the running enhancer has dispatched an update and
\* ended; the flag is clear and a timer is pending.
C24_Witness ==
    /\ is_running
    /\ ~is_checking
    /\ check_threads = EmptyBag
    /\ apply_count = 1
    /\ speech_buffer = <<>>
    /\ timers = 1

\* C25: no detection cycle is spawned while an update dispatched by a
\* detection cycle is in flight.
C25_NoCycleWhileUpdating ==
    [][BagCardinality(check_threads') > BagCardinality(check_threads)
          => \A t \in BagToSet(apply_threads) : t.origin # "auto"]_vars

\* the statuses of a system at work
WorkingStatuses == {"Listening", "Analyzing", "Updating", "Inserting"}

\* C26: a step that leaves the system stopped does not replace the status
\* Stopped by Listening, Analyzing or Updating.
C26_StoppedStatusKept ==
    [][(~is_running /\ status = "Stopped" /\ ~is_running')
          => status' \notin WorkingStatuses]_vars

\* a step of detection thread t
CheckSteps(t) ==
    /\ t \in BagToSet(check_threads)
    /\ check_threads' # check_threads
    /\ \/ check_threads' = Ended(check_threads, t)
       \/ \E u \in BagToSet(check_threads') : check_threads' = Stepped(check_threads, t, u)

\* C27: a step of a detection cycle that dispatches an update leaves the buffer
\* empty, every other step of a detection cycle leaves the buffer as it was,
\* and no other step empties a buffer that holds utterances.
C27_BufferClearedOnlyOnDeviation ==
    /\ [][\A t \in BagToSet(check_threads) :
             CheckSteps(t) =>
                speech_buffer' = (IF apply_count' = apply_count + 1 THEN <<>>
                                  ELSE speech_buffer)]_vars
    /\ [][(speech_buffer # <<>> /\ speech_buffer' = <<>>)
             => (apply_count' = apply_count + 1 /\ check_threads' # check_threads)]_vars

\* C27 witness: an update dispatched by a detection cycle is in flight and the
\* buffer, which held the utterances delivered, is empty.
C27_Witness ==
    /\ speech_buffer = <<>>
    /\ speech_queue = <<>>
    /\ utter_count = MIN_UTTERANCES
    /\ \E t \in BagToSet(apply_threads) : t.origin = "auto"

\* C28: exactly one periodic timer is pending while the system is running and
\* none while it is stopped.
C28_OneTimerWhileRunning == timers = (IF is_running THEN 1 ELSE 0)

====
